---- MODULE Spec2Model ----
\* Gesture interpreter (GestureController.predictWebcam) and the application
\* state it drives (GrandTreeApp), src/src/App.tsx.
\*
\* Units.  Landmark coordinates are hundredths of the normalised image
\* ([0,1] -> 0..100).  Thresholds are thousandths (0.22 -> 220).  Rotation
\* speeds are ten-thousandths (0.01 -> 100).  Gesture scores are hundredths.
\* Times are milliseconds (Date.now()).  Every comparison of a quotient or a
\* square root with a threshold is done on the squared, cross-multiplied
\* integers, which is exact for the inputs used (none lies on a threshold).
EXTENDS Integers, Sequences, FiniteSets, TLC

\* The particle groups that lerp every object (169-196, 267-278, 309-322).
Groups == {"ornaments", "elements", "lights"}

\* ---------------------------------------------------------------- bounds
\* Length of the photo list the existence check can find.
MaxPhotos == 2
\* Runs of GestureController's effect: the mount and every debug toggle.
MaxEffects == 3
\* Milliseconds between two frames the recognizer processes.
FrameGap == 250
\* The clock stops after this many frames.
MaxGaps == 7
\* Timers of hideZoom pending at once.
MaxTimers == 1
\* Ticks of the render loop one particle is followed for.
MaxTicks == 6

\* ------------------------------------------------------ program constants
PICK_COOLDOWN == 800
OK_HOLD_FRAMES == 2
MOVE_UNPICK_THRESHOLD == 80
baseNormChaos == 220
baseNormFormed == 120
baseOtherChaos == 380
baseOtherFormed == 480
\* score > 0.4
ScoreThreshold == 40
\* (0.5 - x) * 0.15, Math.abs(speed) > 0.01
RotationGain == 15
RotationDeadZone == 100
\* setTimeout(..., 350) of hideZoom
ZoomUnmountDelay == 350

\* Date.now() when the page is mounted: any instant later than PICK_COOLDOWN
\* after the epoch, so that lastPickTime = 0 never blocks the first pick.
StartTime == PICK_COOLDOWN + FrameGap
MaxTime == StartTime + MaxGaps * FrameGap

VARIABLES
  \* GrandTreeApp state (useState)
  sceneState, rotationSpeed, debugMode, permissiveOk,
  availablePhotos, photosReady,
  zoomPhotoIndex, zoomMounted, hideTimers,
  \* GestureController: one record per run of its effect (closure), in order
  ctrl,
  \* camera streams acquired and not stopped; the enableAI prop
  streams, enableAI,
  \* Date.now() as last read
  now,
  \* the step just taken: the controller whose predictWebcam ran (0: none),
  \* what it found in the video and the callbacks it invoked, in order
  who, frame, events,
  \* history of the callbacks delivered to the application
  pickOpen, lastPickAt,
  \* GrandTreeApp: the status line; whether the page is served over https
  \* or from localhost
  aiStatus, secureOrigin,
  \* the last steps, up to three, that were runs of predictWebcam without a
  \* decoded frame
  idleTicks,
  \* the render loop of <Canvas>, and the lerp target each particle group
  \* took in the step just taken
  canvasLoop, lerpTarget,
  \* one object of the scene under repeated ticks: a particle of a group
  \* (x: currentPos.x), the foliage material (x: uProgress) or the top star
  \* (x: scale.x)
  particle

vars == <<sceneState, rotationSpeed, debugMode, permissiveOk, availablePhotos,
          photosReady, zoomPhotoIndex, zoomMounted, hideTimers, ctrl,
          streams, enableAI, now, who, frame, events, pickOpen, lastPickAt,
          aiStatus, secureOrigin, idleTicks, canvasLoop, lerpTarget, particle>>

\* ------------------------------------------------------------- arithmetic
Sq(n) == n * n
Abs(n) == IF n < 0 THEN -n ELSE n
Min(S) == CHOOSE m \in S : \A n \in S : m <= n
Max(S) == CHOOSE m \in S : \A n \in S : m >= n

\* ------------------------------------------------- recognizer results
Pt(x, y) == [x |-> x, y |-> y]

\* A hand shape relative to its wrist (landmark 0): the five finger tips
\* (4, 8, 12, 16, 20), two knuckles (5, 17) and the remaining points in the palm.
Shape(thumb, index, middle, ring, pinky, k5, k17) ==
  [i \in 0..20 |->
     CASE i = 0 -> Pt(0, 0)
       [] i = 4 -> thumb
       [] i = 8 -> index
       [] i = 12 -> middle
       [] i = 16 -> ring
       [] i = 20 -> pinky
       [] i = 5 -> k5
       [] i = 17 -> k17
       [] OTHER -> Pt(0, -5)]

\* Thumb and index tips touching, the other three fingers stretched:
\* bounding box 12 x 16, diagonal 20, norm = 1/12.
ShapeOk == Shape(Pt(-4, -8), Pt(-3, -8), Pt(0, -16), Pt(4, -15), Pt(8, -13),
                 Pt(-4, -9), Pt(8, -9))
\* The same with thumb and index 0.03 apart: norm = 3/12 = 0.25.
ShapeOkLoose == Shape(Pt(-4, -8), Pt(-1, -8), Pt(0, -16), Pt(4, -15), Pt(8, -13),
                      Pt(-4, -9), Pt(8, -9))
\* Open palm: thumb far from index (norm = 0.59), all fingers stretched.
ShapeOpen == Shape(Pt(-8, -8), Pt(-3, -16), Pt(0, -16), Pt(4, -15), Pt(8, -13),
                   Pt(-8, -9), Pt(8, -9))
\* Fist: thumb on index (norm = 0.1), the other tips curled back to the wrist.
ShapeFist == Shape(Pt(-1, -6), Pt(0, -6), Pt(0, -4), Pt(1, -4), Pt(2, -4),
                   Pt(-5, -12), Pt(5, -12))

\* A hand the recognizer cut short: the landmarks 0..12 of the fist.  The
\* middle tip (12) is there and curled, the tips 16 and 20 are missing.
ShapeFist13 == [i \in 0..12 |-> ShapeFist[i]]

ShapeOf(name) ==
  CASE name = "Ok" -> ShapeOk
    [] name = "OkLoose" -> ShapeOkLoose
    [] name = "Open" -> ShapeOpen
    [] name = "Fist" -> ShapeFist
    [] name = "Fist13" -> ShapeFist13

\* The 21 landmarks of a shape whose wrist is at (wx, wy).
HandAt(shape, wx, wy) ==
  [i \in DOMAIN shape |-> Pt(wx + shape[i].x, wy + shape[i].y)]

\* What predictWebcam can find in one animation frame, as descriptors:
\* hand = "unready" is a video without a decoded frame (videoWidth = 0),
\* hand = "none" a frame without a hand, hand = "error" a frame on which
\* recognizeForVideo throws; the wrist is at (wx, 0.5).
Unready == [hand |-> "unready", wx |-> 0, label |-> "", score |-> 0]
NoHand == [hand |-> "none", wx |-> 0, label |-> "", score |-> 0]
Failure == [hand |-> "error", wx |-> 0, label |-> "", score |-> 0]
Seen(hand, wx, label, score) ==
  [hand |-> hand, wx |-> wx, label |-> label, score |-> score]
Frames ==
  { Unready, NoHand, Failure,
    Seen("Fist13", 50, "None", 90),
    Seen("Ok", 50, "None", 90),
    Seen("Ok", 51, "Open_Palm", 90),
    Seen("Ok", 52, "None", 90),
    Seen("OkLoose", 50, "Victory", 90),
    Seen("Open", 50, "Open_Palm", 40),
    Seen("Fist", 40, "Closed_Fist", 90) }
\* No predictWebcam ran in the step just taken.
NoFrame == [hand |-> "-", wx |-> 0, label |-> "", score |-> 0]

\* ------------------------------------------------------------- callbacks
SetScene(s) == [type |-> "SetScene", scene |-> s, n |-> 0]
SetRotation(v) == [type |-> "SetRotation", scene |-> "", n |-> v]
Pick(i) == [type |-> "Pick", scene |-> "", n |-> i]
Unpick == [type |-> "Unpick", scene |-> "", n |-> 0]

Emits(evs, t) == \E i \in DOMAIN evs : evs[i].type = t
Count(evs, t) == Cardinality({i \in DOMAIN evs : evs[i].type = t})

\* ------------------------------------------- OK-sign geometry (622-652)
Dist2(p, q) == Sq(p.x - q.x) + Sq(p.y - q.y)
Has(lm, i) == i \in DOMAIN lm

\* 628-629: let minX = 1, maxX = 0, minY = 1, maxY = 0; for (const p of lm) ...
BoundingBox(lm) ==
  [minX |-> Min({100} \cup {lm[i].x : i \in DOMAIN lm}),
   maxX |-> Max({0} \cup {lm[i].x : i \in DOMAIN lm}),
   minY |-> Min({100} \cup {lm[i].y : i \in DOMAIN lm}),
   maxY |-> Max({0} \cup {lm[i].y : i \in DOMAIN lm})]

\* 649: the squared distance of tip ti from the wrist, when both exist.
TipDist2(lm, ti) ==
  [has |-> Has(lm, ti) /\ Has(lm, 0),
   d2 |-> IF Has(lm, ti) /\ Has(lm, 0) THEN Dist2(lm[ti], lm[0]) ELSE 0]

\* 622-632, 644-649: the quantities the OK-sign block computes from the
\* landmarks of one hand, squared where the code takes a square root:
\* dist (thumb tip to index tip), bboxW, diag, the wrist and the distances
\* of the tips 12, 16, 20 from it.  count: lm.length; hasTips: lm[4] and
\* lm[8] exist.
Measure(lm) ==
  LET box == BoundingBox(lm)
  IN [count |-> Cardinality(DOMAIN lm),
      hasTips |-> Has(lm, 4) /\ Has(lm, 8),
      dist2 |-> IF Has(lm, 4) /\ Has(lm, 8) THEN Dist2(lm[4], lm[8]) ELSE 0,
      bboxW |-> Max({1, box.maxX - box.minX}),
      diag2 |-> Sq(box.maxX - box.minX) + Sq(box.maxY - box.minY),
      hasWrist |-> Has(lm, 0),
      wrist |-> IF Has(lm, 0) THEN lm[0] ELSE Pt(0, 0),
      otherTips |-> <<TipDist2(lm, 12), TipDist2(lm, 16), TipDist2(lm, 20)>>]

\* results.gestures / results.landmarks of recognizeForVideo (numHands: 1)
\* for the frame described by d; each hand is given by its measures.
Result(d) ==
  IF d.hand \in {"unready", "none", "error"}
  THEN [d |-> d, ready |-> d.hand # "unready", fails |-> d.hand = "error",
        gestures |-> <<>>, landmarks |-> <<>>]
  ELSE [d |-> d, ready |-> TRUE, fails |-> FALSE,
        gestures |-> << <<[categoryName |-> d.label, score |-> d.score]>> >>,
        landmarks |-> <<Measure(HandAt(ShapeOf(d.hand), d.wx, 50))>>]
\* What the video and the recognizer can give in one animation frame.
Results == {Result(d) : d \in Frames}

\* dist / bboxW < thr / 1000
NormBelow(h, thr) == h.dist2 * 1000000 < Sq(thr) * Sq(h.bboxW)

\* sqrt(d2) / Math.max(0.001, diag) < thr / 1000; a diagonal of 0 is
\* replaced by 0.001, a tenth of the coordinate unit.
RatioBelow(d2, h, thr) ==
  IF h.diag2 = 0 THEN d2 * 100000000 < Sq(thr)
  ELSE d2 * 1000000 < Sq(thr) * h.diag2
\* sqrt(d2) / Math.max(0.001, diag) > thr / 1000
RatioAbove(d2, h, thr) ==
  IF h.diag2 = 0 THEN d2 * 100000000 > Sq(thr)
  ELSE d2 * 1000000 > Sq(thr) * h.diag2

normThreshold(scene, permissive) ==
  ((IF scene = "CHAOS" THEN baseNormChaos ELSE baseNormFormed)
     * (IF permissive THEN 125 ELSE 100)) \div 100
otherExtendThreshold(scene, permissive) ==
  ((IF scene = "CHAOS" THEN baseOtherChaos ELSE baseOtherFormed)
     * (IF permissive THEN 85 ELSE 100)) \div 100

\* 646-652, the loop over otherTips = [12, 16, 20]: "throw" when it reads a
\* landmark the array does not have, "collapsed" at the first tip closer
\* than the threshold (break), "extended" when all three are beyond it.
RECURSIVE OtherScan(_, _, _)
OtherScan(h, thr, tips) ==
  IF tips = <<>> THEN "extended"
  ELSE IF ~Head(tips).has THEN "throw"
  ELSE IF RatioBelow(Head(tips).d2, h, thr) THEN "collapsed"
  ELSE OtherScan(h, thr, Tail(tips))
otherExtended(h, thr) == OtherScan(h, thr, h.otherTips)

\* A TypeError is raised inside the try block, before any assignment to the
\* interpreter state: lm[4] or lm[8] missing (624-625), or the tip loop
\* reading a missing landmark or the missing wrist (644-649).
Throws(h, scene, permissive) ==
  \/ ~h.hasTips
  \/ otherExtended(h, otherExtendThreshold(scene, permissive)) = "throw"

\* norm < normThreshold && otherExtended (655)
OkSign(h, scene, permissive) ==
  /\ NormBelow(h, normThreshold(scene, permissive))
  /\ otherExtended(h, otherExtendThreshold(scene, permissive)) = "extended"

\* ------------------------------------------------ interpreter state
NoPos == [set |-> FALSE, x |-> 0, y |-> 0]
Pos(p) == [set |-> TRUE, x |-> p.x, y |-> p.y]

\* The closure one run of the effect creates (501-591): the props of the
\* render that ran it, and its own interpreter variables.
NewController(stage, photosCount, scene, permissive) ==
  [stage |-> stage,
   photosCount |-> photosCount, sceneState |-> scene, permissiveOk |-> permissive,
   lastPickTime |-> 0, okActive |-> FALSE, okFrameCount |-> 0,
   lastPickHandPos |-> NoPos]

\* A closure nothing refers to any more: its loop does not run again.
Dropped(stage) == NewController(stage, 0, "CHAOS", FALSE)

\* 655-659
CountOk(c, h) ==
  IF OkSign(h, c.sceneState, c.permissiveOk)
  THEN [c EXCEPT !.okFrameCount = Min({c.okFrameCount + 1, OK_HOLD_FRAMES})]
  ELSE [c EXCEPT !.okFrameCount = 0]

\* 662-672
PickEnabled(c, t) ==
  /\ c.okFrameCount >= OK_HOLD_FRAMES
  /\ ~c.okActive
  /\ c.photosCount > 0
  /\ t - c.lastPickTime > PICK_COOLDOWN
RisingEdge(s, h, t, idx) ==
  IF PickEnabled(s.c, t)
  THEN [c |-> [s.c EXCEPT !.lastPickTime = t, !.okActive = TRUE,
                          !.lastPickHandPos = Pos(h.wrist)],
        ev |-> Append(s.ev, Pick(idx))]
  ELSE s

\* 675 with norm < normThreshold for norm >= normThreshold.
ReleasedInverted(c, h) ==
  /\ c.okActive
  /\ \/ NormBelow(h, normThreshold(c.sceneState, c.permissiveOk))
     \/ c.okFrameCount = 0
\* 675-680
Released(c, h) ==
  /\ c.okActive
  /\ \/ ~NormBelow(h, normThreshold(c.sceneState, c.permissiveOk))
     \/ c.okFrameCount = 0
\* 675-680 without okActive = false: the movement check that follows still
\* sees the pick.
FallingEdgeKeepsActive(s, h) ==
  IF Released(s.c, h)
  THEN [c |-> s.c, ev |-> Append(s.ev, Unpick)]
  ELSE s
FallingEdge(s, h) ==
  IF Released(s.c, h)
  THEN [c |-> [s.c EXCEPT !.okActive = FALSE, !.lastPickHandPos = NoPos],
        ev |-> Append(s.ev, Unpick)]
  ELSE s

\* 683-693 with the distance not divided by the diagonal.
MovedRaw(c, h) ==
  /\ c.okActive
  /\ c.lastPickHandPos.set
  /\ Dist2(h.wrist, c.lastPickHandPos) * 100 > Sq(MOVE_UNPICK_THRESHOLD)

\* 683-693
Moved(c, h) ==
  /\ c.okActive
  /\ c.lastPickHandPos.set
  /\ RatioAbove(Dist2(h.wrist, c.lastPickHandPos), h, MOVE_UNPICK_THRESHOLD)
\* 687-692 without lastPickHandPos = null (689).
MoveUnpickKeepsAnchor(s, h) ==
  IF Moved(s.c, h)
  THEN [c |-> [s.c EXCEPT !.okActive = FALSE], ev |-> Append(s.ev, Unpick)]
  ELSE s
MoveUnpick(s, h) ==
  IF Moved(s.c, h)
  THEN [c |-> [s.c EXCEPT !.okActive = FALSE, !.lastPickHandPos = NoPos],
        ev |-> Append(s.ev, Unpick)]
  ELSE s

\* 620-709: the OK-sign block on the first hand, at time t; idx is
\* Math.floor(Math.random() * photosCount).
OkBlock(c, h, t, idx) ==
  IF Throws(h, c.sceneState, c.permissiveOk)
  THEN [c |-> c, ev |-> <<>>]
  ELSE MoveUnpick(FallingEdge(RisingEdge([c |-> CountOk(c, h), ev |-> <<>>],
                                         h, t, idx), h), h)

\* 608-618 without the else branch: a frame without a hand calls nothing.
GestureEventsKeepsSpeed(gestures, landmarks) ==
  IF Len(gestures) > 0
  THEN LET name == gestures[1][1].categoryName
           score == gestures[1][1].score
           speed == (50 - landmarks[1].wrist.x) * RotationGain
       IN (IF score > ScoreThreshold /\ name = "Open_Palm"
           THEN <<SetScene("CHAOS")>> ELSE <<>>)
          \o (IF score > ScoreThreshold /\ name = "Closed_Fist"
              THEN <<SetScene("FORMED")>> ELSE <<>>)
          \o (IF Len(landmarks) > 0
              THEN <<SetRotation(IF Abs(speed) > RotationDeadZone THEN speed ELSE 0)>>
              ELSE <<>>)
  ELSE <<>>

\* 608-618 with score >= 0.4 for score > 0.4.
GestureEventsAtLeast(gestures, landmarks) ==
  IF Len(gestures) > 0
  THEN LET name == gestures[1][1].categoryName
           score == gestures[1][1].score
           speed == (50 - landmarks[1].wrist.x) * RotationGain
       IN (IF score >= ScoreThreshold /\ name = "Open_Palm"
           THEN <<SetScene("CHAOS")>> ELSE <<>>)
          \o (IF score >= ScoreThreshold /\ name = "Closed_Fist"
              THEN <<SetScene("FORMED")>> ELSE <<>>)
          \o (IF Len(landmarks) > 0
              THEN <<SetRotation(IF Abs(speed) > RotationDeadZone THEN speed ELSE 0)>>
              ELSE <<>>)
  ELSE <<SetRotation(0)>>

\* 608-618 with speed > 0.01 for Math.abs(speed) > 0.01.
GestureEventsOneSided(gestures, landmarks) ==
  IF Len(gestures) > 0
  THEN LET name == gestures[1][1].categoryName
           score == gestures[1][1].score
           speed == (50 - landmarks[1].wrist.x) * RotationGain
       IN (IF score > ScoreThreshold /\ name = "Open_Palm"
           THEN <<SetScene("CHAOS")>> ELSE <<>>)
          \o (IF score > ScoreThreshold /\ name = "Closed_Fist"
              THEN <<SetScene("FORMED")>> ELSE <<>>)
          \o (IF Len(landmarks) > 0
              THEN <<SetRotation(IF speed > RotationDeadZone THEN speed ELSE 0)>>
              ELSE <<>>)
  ELSE <<SetRotation(0)>>

\* 608-618
GestureEvents(gestures, landmarks) ==
  IF Len(gestures) > 0
  THEN LET name == gestures[1][1].categoryName
           score == gestures[1][1].score
           speed == (50 - landmarks[1].wrist.x) * RotationGain
       IN (IF score > ScoreThreshold /\ name = "Open_Palm"
           THEN <<SetScene("CHAOS")>> ELSE <<>>)
          \o (IF score > ScoreThreshold /\ name = "Closed_Fist"
              THEN <<SetScene("FORMED")>> ELSE <<>>)
          \o (IF Len(landmarks) > 0
              THEN <<SetRotation(IF Abs(speed) > RotationDeadZone THEN speed ELSE 0)>>
              ELSE <<>>)
  ELSE <<SetRotation(0)>>

\* 595-709: the body of predictWebcam; without a decoded frame
\* (videoWidth = 0) nothing is recognized.  recognizeForVideo (596) is
\* called outside the try block of 621-708: when it throws, the exception
\* leaves predictWebcam before 711 (into the catch of setup() from the first
\* run, uncaught from a later one) and the loop of this closure is over.
Joined(ge, ok) == [c |-> ok.c, ev |-> ge \o ok.ev]
\* 595-709 with the interpreter cleared when the frame shows no hand: the
\* counter and the pick are reset and an open pick is closed.
RecognizeClearsWithoutHand(c, r, t, idx) ==
  IF ~r.ready THEN [c |-> c, ev |-> <<>>]
  ELSE IF r.fails THEN [c |-> Dropped("crashed"), ev |-> <<>>]
  ELSE Joined(GestureEvents(r.gestures, r.landmarks),
              IF Len(r.landmarks) > 0
              THEN OkBlock(c, r.landmarks[1], t, idx)
              ELSE [c |-> [c EXCEPT !.okFrameCount = 0, !.okActive = FALSE,
                                    !.lastPickHandPos = NoPos],
                    ev |-> IF c.okActive THEN <<Unpick>> ELSE <<>>])
Recognize(c, r, t, idx) ==
  IF ~r.ready THEN [c |-> c, ev |-> <<>>]
  ELSE IF r.fails THEN [c |-> Dropped("crashed"), ev |-> <<>>]
  ELSE Joined(GestureEvents(r.gestures, r.landmarks),
              IF Len(r.landmarks) > 0
              THEN OkBlock(c, r.landmarks[1], t, idx)
              ELSE [c |-> c, ev |-> <<>>])

\* --------------------------------------------- the application's handlers
\* zoomPhotoIndex === null
NoIndex == -1

\* onGesture = setSceneState, onMove = setRotationSpeed, onPick = showZoom,
\* onUnpick = hideZoom (826, 755-767), applied to the application state
\* app in the order the frame invoked them, at time t.
ApplyEvent(app, e, t) ==
  CASE e.type = "SetScene" -> [app EXCEPT !.sceneState = e.scene]
    [] e.type = "SetRotation" -> [app EXCEPT !.rotationSpeed = e.n]
    [] e.type = "Pick" ->
         [app EXCEPT !.zoomPhotoIndex = e.n, !.zoomMounted = TRUE,
                     !.pickOpen = TRUE, !.lastPickAt = t]
    [] e.type = "Unpick" ->
         [app EXCEPT !.hideTimers = Append(@, t + ZoomUnmountDelay),
                     !.pickOpen = FALSE]
RECURSIVE ApplyEvents(_, _, _)
ApplyEvents(app, evs, t) ==
  IF evs = <<>> THEN app
  ELSE ApplyEvents(ApplyEvent(app, Head(evs), t), Tail(evs), t)

App ==
  [sceneState |-> sceneState, rotationSpeed |-> rotationSpeed,
   zoomPhotoIndex |-> zoomPhotoIndex, zoomMounted |-> zoomMounted,
   hideTimers |-> hideTimers, pickOpen |-> pickOpen, lastPickAt |-> lastPickAt]

\* No useFrame callback ran in the step just taken.
NoTarget == [g \in Groups |-> "-"]

\* The step just taken ran no predictWebcam and no useFrame callback.
Quiet ==
  /\ who' = 0 /\ frame' = NoFrame /\ events' = <<>>
  /\ lerpTarget' = NoTarget
  /\ idleTicks' = 0
  /\ UNCHANGED <<secureOrigin, canvasLoop, particle>>

\* The <Canvas> is not mounted.
NoLoop == [on |-> FALSE, ahead |-> {}]
\* No object of the scene is followed.
NoParticle ==
  [group |-> "-", delta |-> 0, weight |-> 0, x |-> 0, ticks |-> 0,
   speed |-> 0, timeOffset |-> 0, emissiveIntensity |-> 0]

\* -------------------------------------------------------------- Init
\* After the first render and the first run of the effects: the photo check
\* is still pending (availablePhotos = []), the controller's setup has begun.
\* 826: enableAI is false without WebGL, without mediaDevices.getUserMedia,
\* and on a page served neither over https nor from localhost.  506-510: the
\* first status setup() writes.
InitApp ==
  /\ sceneState = "CHAOS"
  /\ rotationSpeed = 0
  /\ debugMode = FALSE
  /\ permissiveOk = FALSE
  /\ availablePhotos = 0
  /\ photosReady = FALSE
  /\ zoomPhotoIndex = NoIndex
  /\ zoomMounted = FALSE
  /\ hideTimers = <<>>
  /\ secureOrigin \in BOOLEAN
  /\ enableAI \in {b \in BOOLEAN : b => secureOrigin}
  /\ ctrl = <<IF enableAI THEN NewController("setup", 0, "CHAOS", FALSE)
              ELSE Dropped("disabled")>>
  /\ aiStatus = (IF enableAI THEN "DOWNLOADING" ELSE "DISABLED")
  /\ streams = 0
  /\ now = StartTime
  /\ who = 0
  /\ frame = NoFrame
  /\ events = <<>>
  /\ pickOpen = FALSE
  /\ lastPickAt = 0
  /\ idleTicks = 0
  /\ canvasLoop = NoLoop
  /\ lerpTarget = NoTarget

Init == InitApp /\ particle = NoParticle

\* ------------------------------------------------------- UI and effects
\* 769-800: the existence check settles once; n photos were found.
PhotosChecked(n) ==
  /\ ~photosReady
  /\ availablePhotos' = n
  /\ photosReady' = TRUE
  /\ Quiet
  /\ UNCHANGED aiStatus
  /\ UNCHANGED <<sceneState, rotationSpeed, debugMode, permissiveOk,
                 zoomPhotoIndex, zoomMounted, hideTimers, ctrl, streams,
                 enableAI, now, pickOpen, lastPickAt>>

\* 715: return () => cancelAnimationFrame(requestRef), for a closure whose
\* loop has a callback registered: the callback never runs.
Cleanup(c) == IF c.stage = "running" THEN Dropped("stopped") ELSE c

\* 501-716: the effect runs with the props of the render in progress.
EffectRuns ==
  IF enableAI
  THEN NewController("setup", availablePhotos, sceneState, permissiveOk)
  ELSE Dropped("disabled")

\* 858 and 501-716: the debug button flips debugMode, the only dependency of
\* the effect that ever changes: the last run is cleaned up and the effect
\* runs again.  A press while setup() of the last run is still awaiting
\* cancels nothing (715: requestRef is not assigned before 711).
PressDebug ==
  /\ Len(ctrl) < MaxEffects
  /\ debugMode' = ~debugMode
  /\ ctrl' = Append([ctrl EXCEPT ![Len(ctrl)] = Cleanup(ctrl[Len(ctrl)])],
                    EffectRuns)
  /\ aiStatus' = (IF enableAI THEN "DOWNLOADING" ELSE "DISABLED")
  /\ Quiet
  /\ UNCHANGED <<sceneState, rotationSpeed, permissiveOk, availablePhotos,
                 photosReady, zoomPhotoIndex, zoomMounted, hideTimers, streams,
                 enableAI, now, pickOpen, lastPickAt>>

\* The debug button pressed when setup() of the last run has settled.
ToggleDebug ==
  /\ ctrl[Len(ctrl)].stage # "setup"
  /\ PressDebug

\* 861
TogglePermissive ==
  /\ permissiveOk' = ~permissiveOk
  /\ Quiet
  /\ UNCHANGED aiStatus
  /\ UNCHANGED <<sceneState, rotationSpeed, debugMode, availablePhotos,
                 photosReady, zoomPhotoIndex, zoomMounted, hideTimers, ctrl,
                 streams, enableAI, now, pickOpen, lastPickAt>>

\* 864
ToggleScene ==
  /\ sceneState' = (IF sceneState = "CHAOS" THEN "FORMED" ELSE "CHAOS")
  /\ Quiet
  /\ UNCHANGED aiStatus
  /\ UNCHANGED <<rotationSpeed, debugMode, permissiveOk, availablePhotos,
                 photosReady, zoomPhotoIndex, zoomMounted, hideTimers, ctrl,
                 streams, enableAI, now, pickOpen, lastPickAt>>

\* 829: the overlay is rendered.
OverlayShown ==
  /\ zoomMounted
  /\ zoomPhotoIndex # NoIndex
  /\ zoomPhotoIndex < availablePhotos

\* 834: the Close button of the overlay calls hideZoom.
CloseZoom ==
  /\ OverlayShown
  /\ Len(hideTimers) < MaxTimers
  /\ hideTimers' = Append(hideTimers, now + ZoomUnmountDelay)
  /\ Quiet
  /\ UNCHANGED aiStatus
  /\ UNCHANGED <<sceneState, rotationSpeed, debugMode, permissiveOk,
                 availablePhotos, photosReady, zoomPhotoIndex, zoomMounted,
                 ctrl, streams, enableAI, now, pickOpen, lastPickAt>>

\* 766: the oldest timer of hideZoom fires, not before its delay has passed.
ZoomTimeout ==
  /\ hideTimers # <<>>
  /\ Head(hideTimers) <= now
  /\ hideTimers' = Tail(hideTimers)
  /\ zoomMounted' = FALSE
  /\ zoomPhotoIndex' = NoIndex
  /\ Quiet
  /\ UNCHANGED aiStatus
  /\ UNCHANGED <<sceneState, rotationSpeed, debugMode, permissiveOk,
                 availablePhotos, photosReady, ctrl, streams, enableAI, now,
                 pickOpen, lastPickAt>>

\* ------------------------------------------------------------ setup()
\* 511-582: one of the awaits of setup() rejects (the fileset, the
\* recognizer on GPU and then on CPU, getUserMedia) and a catch block ends
\* it with a status that begins with ERROR (578, 581): predictWebcam is
\* never called by this closure.
SetupFails(i) ==
  /\ i \in DOMAIN ctrl
  /\ ctrl[i].stage = "setup"
  /\ ctrl' = [ctrl EXCEPT ![i] = Dropped("failed")]
  /\ aiStatus' = "ERROR"
  /\ Quiet
  /\ UNCHANGED <<sceneState, rotationSpeed, debugMode, permissiveOk,
                 availablePhotos, photosReady, zoomPhotoIndex, zoomMounted,
                 hideTimers, streams, enableAI, now, pickOpen, lastPickAt>>

\* Timers run when they are due: no animation frame begins while a timer of
\* hideZoom that was due at the last reading of the clock has not run.
NoTimerDue == IF hideTimers = <<>> THEN TRUE ELSE Head(hideTimers) > now

\* --------------------------------------------------- predictWebcam()
\* The debugMode a closure was created with: the effect runs again on every
\* change of debugMode (716), which is false at the mount (731).
DebugOf(i) == i % 2 = 0

\* In debug mode a run of predictWebcam writes a status (612, 618, 670, 679,
\* 691, 704) unless it ends before: without a decoded frame, in
\* recognizeForVideo, or by a TypeError of the OK block after a gesture of
\* score <= 0.4.  None of these texts contains ERROR; they are one value
\* here.
Writes(c, r) ==
  /\ r.ready
  /\ ~r.fails
  /\ \/ Len(r.gestures) = 0
     \/ r.gestures[1][1].score > ScoreThreshold
     \/ Len(r.landmarks) > 0
          /\ ~Throws(r.landmarks[1], c.sceneState, c.permissiveOk)

\* 573-578: the first run of predictWebcam follows
\* onStatus("AI READY: SHOW HAND") inside the try block of setup(), whose
\* catch reports what that run throws; what a later run throws is reported
\* nowhere.
StatusAfter(i, r) ==
  IF DebugOf(i) /\ Writes(ctrl[i], r) THEN "DEBUG"
  ELSE IF ctrl[i].stage = "setup" THEN (IF r.ready /\ r.fails THEN "ERROR"
                                       ELSE "READY")
  ELSE aiStatus

\* The callbacks of one run of predictWebcam have been applied, and 711 has
\* registered the next run, unless an exception ended the run before.
Deliver(i, r, t, out, app) ==
  /\ now' = t
  /\ ctrl' = [ctrl EXCEPT ![i] =
                [out.c EXCEPT !.stage = IF @ = "crashed" THEN @ ELSE "running"]]
  /\ who' = i
  /\ frame' = r.d
  /\ events' = out.ev
  /\ sceneState' = app.sceneState
  /\ rotationSpeed' = app.rotationSpeed
  /\ zoomPhotoIndex' = app.zoomPhotoIndex
  /\ zoomMounted' = app.zoomMounted
  /\ hideTimers' = app.hideTimers
  /\ pickOpen' = app.pickOpen
  /\ lastPickAt' = app.lastPickAt
  /\ aiStatus' = StatusAfter(i, r)
  /\ idleTicks' = (IF r.ready THEN 0 ELSE Min({idleTicks + 1, 3}))
  /\ UNCHANGED <<debugMode, permissiveOk, availablePhotos, photosReady,
                 enableAI, secureOrigin, canvasLoop, particle>>

Handle(i, r, t, out) == Deliver(i, r, t, out, ApplyEvents(App, out.ev, t))

\* 666 with Math.round for Math.floor.
DrawsInclusive(c, r, t) ==
  IF Emits(Recognize(c, r, t, 0).ev, "Pick") THEN 0..c.photosCount
  ELSE {0}

\* 666: Math.floor(Math.random() * photosCount) is drawn on the frames that
\* pick, and only on them.
Draws(c, r, t) ==
  IF Emits(Recognize(c, r, t, 0).ev, "Pick") THEN 0..(c.photosCount - 1)
  ELSE {0}

\* 593-713 for controller i, FrameGap after the last run: it finds r in the
\* video at Date.now() = t.
Process(i, r, t) ==
  \E idx \in Draws(ctrl[i], r, t) :
    Handle(i, r, t, Recognize(ctrl[i], r, t, idx))

Predict(i) ==
  /\ NoTimerDue
  /\ now + FrameGap <= MaxTime
  /\ \E r \in Results : Process(i, r, now + FrameGap)

\* 569-574: getUserMedia resolves, the stream is attached to the video and
\* played, and setup calls predictWebcam() for the first time.
CameraGranted(i) ==
  /\ i \in DOMAIN ctrl
  /\ ctrl[i].stage = "setup"
  /\ streams' = streams + 1
  /\ lerpTarget' = NoTarget
  /\ Predict(i)

\* 711: the callback registered with requestAnimationFrame runs.
PredictWebcam(i) ==
  /\ i \in DOMAIN ctrl
  /\ ctrl[i].stage = "running"
  /\ lerpTarget' = NoTarget
  /\ Predict(i)
  /\ UNCHANGED streams

Next ==
  \/ \E n \in {0, MaxPhotos} : PhotosChecked(n)
  \/ ToggleDebug
  \/ TogglePermissive
  \/ ToggleScene
  \/ CloseZoom
  \/ ZoomTimeout
  \/ \E i \in 1..MaxEffects : SetupFails(i)
  \/ \E i \in 1..MaxEffects : CameraGranted(i)
  \/ \E i \in 1..MaxEffects : PredictWebcam(i)

Spec == Init /\ [][Next]_vars

\* --------------------------------------------- the render loop (useFrame)
\* 815-818: the photo check has settled and <Canvas> is mounted; its render
\* loop registers its animation-frame callback after those of the closures
\* whose predictWebcam is already running, and before those of the closures
\* that start later.  Every callback registers its successor while it runs,
\* so this order is the order inside every later animation frame.
CanvasMounts ==
  /\ photosReady
  /\ ~canvasLoop.on
  /\ canvasLoop' = [on |-> TRUE,
                    ahead |-> {i \in DOMAIN ctrl : ctrl[i].stage = "running"}]
  /\ who' = 0 /\ frame' = NoFrame /\ events' = <<>>
  /\ lerpTarget' = NoTarget
  /\ idleTicks' = 0
  /\ UNCHANGED <<sceneState, rotationSpeed, debugMode, permissiveOk,
                 availablePhotos, photosReady, zoomPhotoIndex, zoomMounted,
                 hideTimers, ctrl, streams, enableAI, now, pickOpen,
                 lastPickAt, aiStatus, secureOrigin, particle>>

\* 171-176, 269-273, 311-315: const target = isFormed ? objData.targetPos :
\* objData.chaosPos, in every group, for the state prop of the last render.
Targets(state) ==
  [g \in Groups |-> IF state = "FORMED" THEN "targetPos" ELSE "chaosPos"]

\* 178, 274, 316: the factor of delta in the second argument of lerp, in
\* hundredths; weight is in hundredths.
Rate(group, weight, state) ==
  CASE group = "ornaments" ->
         (IF state = "FORMED" THEN (80 * weight) \div 100 ELSE 50)
    [] group = "elements" -> 150
    [] group = "lights" -> 200

\* Vector3.lerp(v, alpha): this.x += (v.x - this.x) * alpha, without a clamp
\* of alpha.  Positions are hundredths, delta is milliseconds and rate
\* hundredths, so alpha = delta * rate / 100000.
Lerp(x, target, delta, rate) == x + ((target - x) * delta * rate) \div 100000

\* The object followed has chaosPos.x = 0 and targetPos.x = 10.
chaosPos == 0
targetPos == 1000

\* Math.exp(z) in ten-thousandths, for z >= 0 in thousandths: the sum of
\* the series from the term given (the k-th is the one before times z / k).
RECURSIVE ExpSeries(_, _, _)
ExpSeries(term, k, z) ==
  IF term = 0 THEN 0
  ELSE term + ExpSeries((term * z) \div (k * 1000), k + 1, z)
\* Math.exp(-z) in ten-thousandths, for z >= 0 in thousandths.
ExpNeg(z) == 100000000 \div ExpSeries(10000, 1, z)

\* MathUtils.lerp(x, y, t) = (1 - t) * x + t * y, t in ten-thousandths.
Mix(x, y, t) == ((10000 - t) * x + t * y) \div 10000

\* 110 with MathUtils.lerp(x, y, lambda * dt) for MathUtils.damp.
DampLinear(x, y, lambda, dt) == Mix(x, y, (lambda * dt) \div 100)
\* MathUtils.damp(x, y, lambda, dt) = lerp(x, y, 1 - Math.exp(-lambda * dt));
\* lambda in thousandths, dt in milliseconds.
Damp(x, y, lambda, dt) == Mix(x, y, 10000 - ExpNeg((lambda * dt) \div 1000))

\* 109-110: uProgress (ten-thousandths) after one more tick of Foliage.
uProgress(x, state, delta) ==
  Damp(x, IF state = "FORMED" THEN 10000 ELSE 0, 1500, delta)

\* 368-369: scale.x (thousandths) after one more tick of TopStar.
StarScale(x, state, delta) ==
  Lerp(x, IF state = "FORMED" THEN 1000 ELSE 0, delta, 300)

\* Math.sin in thousandths of an angle in milliradians >= 0: the angle is
\* reduced to one turn and each half turn follows Bhaskara's rule
\* 16 a (pi - a) / (5 pi^2 - 4 a (pi - a)), exact to 0.002.
HalfTurn == 3142
SinHalf(a) ==
  (16 * ((a * (HalfTurn - a)) \div 1000) * 1000)
    \div ((5 * HalfTurn * HalfTurn - 4 * a * (HalfTurn - a)) \div 1000)
Sin(angle) ==
  LET a == angle % (2 * HalfTurn)
  IN IF a <= HalfTurn THEN SinHalf(a) ELSE -SinHalf(a - HalfTurn)

\* 319-320 with 3 + Math.sin(...) * 4, the sine not brought into [0, 1].
EmissiveOfSine(state, time, speed, timeOffset) ==
  IF state = "FORMED"
  THEN 3000 + 4 * Sin((time * speed) \div 1000 + timeOffset)
  ELSE 0
\* 319-320: emissiveIntensity (thousandths) of a light at elapsedTime time
\* (milliseconds); speed in thousandths of a radian per second, timeOffset
\* in milliradians.
Emissive(state, time, speed, timeOffset) ==
  IF state = "FORMED"
  THEN 3000 + ((Sin((time * speed) \div 1000 + timeOffset) + 1000) \div 2) * 4
  ELSE 0

\* One more tick of the useFrame callback of the object p, with the clock
\* delta later.
Moved1(p, state) ==
  CASE p.group = "-" -> p
    [] p.group = "foliage" ->
         [p EXCEPT !.x = uProgress(p.x, state, p.delta), !.ticks = p.ticks + 1]
    [] p.group = "star" ->
         [p EXCEPT !.x = StarScale(p.x, state, p.delta), !.ticks = p.ticks + 1]
    [] OTHER ->
         [p EXCEPT !.x = Lerp(p.x, IF state = "FORMED" THEN targetPos ELSE chaosPos,
                              p.delta, Rate(p.group, p.weight, state)),
                   !.ticks = p.ticks + 1,
                   !.emissiveIntensity =
                      IF p.group = "lights"
                      THEN Emissive(state, (p.ticks + 1) * p.delta, p.speed,
                                    p.timeOffset)
                      ELSE @]

\* An animation frame in which only the render loop has something to do:
\* every group's useFrame callback runs with the state prop of the last
\* render, which has followed every earlier change of sceneState.
Tick ==
  /\ canvasLoop.on
  /\ particle.ticks < MaxTicks
  /\ lerpTarget' = Targets(sceneState)
  /\ particle' = Moved1(particle, sceneState)
  /\ who' = 0 /\ frame' = NoFrame /\ events' = <<>>
  /\ idleTicks' = 0
  /\ UNCHANGED <<sceneState, rotationSpeed, debugMode, permissiveOk,
                 availablePhotos, photosReady, zoomPhotoIndex, zoomMounted,
                 hideTimers, ctrl, streams, enableAI, now, pickOpen,
                 lastPickAt, aiStatus, secureOrigin, canvasLoop>>

\* An animation frame in which predictWebcam of closure i runs ahead of the
\* render loop: the state setters it calls (onGesture = setSceneState, 611)
\* only queue a render, which cannot run between two callbacks of one
\* animation frame, so the useFrame callbacks of this frame still read the
\* state prop of the render before.
PredictThenTick(i) ==
  /\ i \in DOMAIN ctrl
  /\ ctrl[i].stage = "running"
  /\ canvasLoop.on
  /\ i \in canvasLoop.ahead
  /\ lerpTarget' = Targets(sceneState)
  /\ Predict(i)
  /\ UNCHANGED streams

\* The application with its render loop, the debug button left alone.
NextScene ==
  \/ \E n \in {0, MaxPhotos} : PhotosChecked(n)
  \/ CanvasMounts
  \/ ToggleScene
  \/ SetupFails(1)
  \/ CameraGranted(1)
  \/ PredictWebcam(1)
  \/ PredictThenTick(1)
  \/ Tick

SceneSpec == Init /\ [][NextScene]_vars

\* ---------------------------------------------- one particle, many ticks
\* The clock of the render loop gives the time since the last animation
\* frame (milliseconds): a frame of a 60 Hz display, a slow frame, and a
\* frame after the page was in the background for a moment.
Deltas == {16, 100, 700}
\* 146: weight = 0.8 + Math.random() * 1.2, at both ends of its range.
Particles ==
  {[NoParticle EXCEPT !.group = "ornaments", !.delta = d, !.weight = w,
                      !.x = chaosPos] :
     d \in Deltas, w \in {80, 200}}
  \cup {[NoParticle EXCEPT !.group = "elements", !.delta = d, !.weight = 100,
                           !.x = chaosPos] : d \in Deltas}
  \cup {[NoParticle EXCEPT !.group = "lights", !.delta = d, !.weight = 100,
                           !.x = chaosPos, !.speed = 2000] : d \in Deltas}

InitLerp == InitApp /\ particle \in Particles

NextLerp ==
  \/ \E n \in {0, MaxPhotos} : PhotosChecked(n)
  \/ CanvasMounts
  \/ ToggleScene
  \/ Tick

LerpSpec == InitLerp /\ [][NextLerp]_vars

\* ------------------------------------- foliage, top star and one light
\* 59: uProgress: 0 in the material.  374: the group of the star is given
\* no scale, which leaves the (1, 1, 1) of a new Object3D.  304-305, 327: a
\* light with speed = 2 + Math.random() * 3 and timeOffset =
\* Math.random() * 100 at both ends and inside their ranges, and
\* emissiveIntensity = 0 in its material.
Decor ==
  {[NoParticle EXCEPT !.group = "foliage", !.delta = d, !.x = 0] :
     d \in Deltas \cup {0}}
  \cup {[NoParticle EXCEPT !.group = "star", !.delta = d, !.x = 1000] :
          d \in Deltas}
  \cup {[NoParticle EXCEPT !.group = "lights", !.delta = d, !.weight = 100,
                           !.x = chaosPos, !.speed = sp, !.timeOffset = off] :
          d \in Deltas, sp \in {2000, 3500, 4999}, off \in {0, 1571, 99999}}

InitDecor == InitApp /\ particle \in Decor

DecorSpec == InitDecor /\ [][NextLerp]_vars

\* ------------------------------ the debug button pressed at any moment
\* The controller alone, before the photo check has settled; the debug
\* button is pressed also while setup() is awaiting.
NextOverlap ==
  \/ PressDebug
  \/ \E i \in 1..MaxEffects : SetupFails(i)
  \/ \E i \in 1..MaxEffects : CameraGranted(i)
  \/ \E i \in 1..MaxEffects : PredictWebcam(i)

OverlapSpec == Init /\ [][NextOverlap]_vars

\* ------------------------------------------ the overlay and its timers
\* 858: the debug button pressed once.  The closure of the mount has the
\* empty photo list of the first render and never picks; the closure of
\* this press has the list the photo check found.
DebugOnce ==
  /\ Len(ctrl) = 1
  /\ ToggleDebug

\* The gestures alone drive the overlay: the Close button, the scene button
\* and the permissive button are left alone.
NextZoom ==
  \/ PhotosChecked(MaxPhotos)
  \/ DebugOnce
  \/ ZoomTimeout
  \/ \E i \in 1..2 : SetupFails(i)
  \/ \E i \in 1..2 : CameraGranted(i)
  \/ \E i \in 1..2 : PredictWebcam(i)

ZoomSpec == Init /\ [][NextZoom]_vars

\* ------------------------------------- 608-618 over the whole image width
\* The results of recognizeForVideo for an open hand whose wrist is
\* anywhere across the image (hundredths of its width), with a top gesture
\* that names a scene or none, at and above the score 0.4.
WristResults ==
  {Result(Seen("Open", x, label, score)) :
     x \in 0..100, label \in {"None", "Open_Palm", "Closed_Fist"},
     score \in {ScoreThreshold, 90}}

\* The gesture block of predictWebcam on the result r.
Rotate(r) ==
  /\ frame' = r.d
  /\ events' = GestureEvents(r.gestures, r.landmarks)
  /\ UNCHANGED <<sceneState, rotationSpeed, debugMode, permissiveOk,
                 availablePhotos, photosReady, zoomPhotoIndex, zoomMounted,
                 hideTimers, ctrl, streams, enableAI, now, who, pickOpen,
                 lastPickAt, aiStatus, secureOrigin, idleTicks, canvasLoop,
                 lerpTarget, particle>>

NextRotation == \E r \in WristResults : Rotate(r)

RotationSpec == Init /\ [][NextRotation]_vars

\* ================================================================ claims
\* Vocabulary.  In a step that ran predictWebcam, who' is the controller,
\* ctrl[who'] its closure before the frame and ctrl'[who'] after it, frame'
\* what it found in the video and events' the callbacks it invoked.
ResultOf(d) == CHOOSE r \in Results : r.d = d
ZeroHands(d) == d.hand = "none"
\* A hand of 21 landmarks.
HandPresent(d) ==
  /\ d.hand \notin {"-", "unready", "none", "error"}
  /\ ResultOf(d).landmarks[1].count = 21
Processed(d) == ZeroHands(d) \/ HandPresent(d)
\* The OK predicate of closure c on the frame d.
OkSatisfied(c, d) ==
  /\ HandPresent(d)
  /\ OkSign(ResultOf(d).landmarks[1], c.sceneState, c.permissiveOk)
\* Wrist displacement from the anchor of c over the diagonal, against 0.08.
MovedBeyond(c, d) ==
  /\ HandPresent(d)
  /\ c.lastPickHandPos.set
  /\ Sq(d.wx - c.lastPickHandPos.x) * 1000000
       > Sq(MOVE_UNPICK_THRESHOLD) * ResultOf(d).landmarks[1].diag2
Cleared(c) == ~c.okActive /\ ~c.lastPickHandPos.set
ScenesOf(evs) == SelectSeq(evs, LAMBDA e : e.type = "SetScene")
PicksOf(evs) == SelectSeq(evs, LAMBDA e : e.type = "Pick")

RECURSIVE Alternates(_, _)
Alternates(open, evs) ==
  IF evs = <<>> THEN TRUE
  ELSE IF Head(evs).type = "Pick" THEN ~open /\ Alternates(TRUE, Tail(evs))
  ELSE IF Head(evs).type = "Unpick" THEN open /\ Alternates(FALSE, Tail(evs))
  ELSE Alternates(open, Tail(evs))

\* C1: over the whole lifetime Pick and Unpick alternate, starting with
\* Pick: no Pick is delivered while a Pick is open, no Unpick while none is.
C1_PickUnpickAlternate == [][Alternates(pickOpen, events')]_vars

\* C2: a processed frame without a hand invokes SetRotation(0) and nothing
\* else, whatever the state of the interpreter.
C2_ZeroHandsStopRotation == ZeroHands(frame) => events = <<SetRotation(0)>>
\* A frame without a hand reached an interpreter that holds a pick.
C2_Witness ==
  /\ ZeroHands(frame)
  /\ ctrl[who].okActive
  /\ events = <<SetRotation(0)>>

\* C3: an OK sign seen on one frame only never picks: no Pick on a frame
\* that satisfies the OK predicate when the processed frame directly before
\* it (with or without a hand) did not satisfy it.
C3_SingleOkFrameNeverPicks ==
  [][(/\ who' # 0 /\ who = who'
      /\ Processed(frame) /\ ~OkSatisfied(ctrl[who], frame)
      /\ OkSatisfied(ctrl[who], frame'))
     => ~Emits(events', "Pick")]_vars

\* C4: once a Pick is open, frames that keep satisfying the OK predicate
\* deliver no Pick: a further Pick comes only after an Unpick.
C4_NoPickWhileOpen ==
  [][(/\ pickOpen /\ who' # 0
      /\ OkSatisfied(ctrl'[who'], frame'))
     => PicksOf(events') = <<>>]_vars

\* C5: any two Pick events are more than PICK_COOLDOWN ms apart.
C5_PicksCooldownApart ==
  [][(Emits(events', "Pick") /\ lastPickAt # 0)
     => now' - lastPickAt > PICK_COOLDOWN]_vars

\* C6: with okActive and an anchor, a frame whose wrist is further from the
\* anchor than 0.08 diagonals invokes Unpick and clears okActive and the
\* anchor, also when the OK predicate still holds on it.
C6_MovementUnpicks ==
  [][(/\ who' # 0
      /\ ctrl[who'].okActive
      /\ MovedBeyond(ctrl[who'], frame'))
     => /\ Emits(events', "Unpick")
        /\ Cleared(ctrl'[who'])]_vars
\* An Unpick on a frame that satisfies the OK predicate.
C6_Witness ==
  /\ who # 0
  /\ OkSatisfied(ctrl[who], frame)
  /\ Emits(events, "Unpick")
  /\ Cleared(ctrl[who])

\* C7: with okActive, a frame with a hand that does not satisfy the OK
\* predicate invokes Unpick exactly once and clears okActive and the anchor,
\* also when the wrist has moved beyond the threshold.
C7_ReleaseUnpicksOnce ==
  [][(/\ who' # 0
      /\ ctrl[who'].okActive
      /\ HandPresent(frame')
      /\ ~OkSatisfied(ctrl[who'], frame'))
     => /\ Count(events', "Unpick") = 1
        /\ Cleared(ctrl'[who'])]_vars
\* The fist, a tenth of the image away from every OK sign, released a pick.
C7_Witness ==
  /\ who # 0
  /\ frame.hand = "Fist"
  /\ Count(events, "Unpick") = 1
  /\ Cleared(ctrl[who])

\* C8: a frame with a hand on which okFrameCount reaches OK_HOLD_FRAMES,
\* with okActive false, the cooldown over and a photo list that is not
\* empty, invokes Pick exactly once and sets okActive, lastPickTime and the
\* anchor.
C8_PickWhenEnabled ==
  [][(/\ who' # 0
      /\ HandPresent(frame')
      /\ ctrl'[who'].okFrameCount >= OK_HOLD_FRAMES
      /\ ~ctrl[who'].okActive
      /\ now' - ctrl[who'].lastPickTime > PICK_COOLDOWN
      /\ availablePhotos > 0)
     => /\ Count(events', "Pick") = 1
        /\ ctrl'[who'].okActive
        /\ ctrl'[who'].lastPickTime = now'
        /\ ctrl'[who'].lastPickHandPos = Pos(Pt(frame'.wx, 50))]_vars

\* C9: every Pick(idx) has 0 <= idx < length of the photo list when it is
\* invoked; none is invoked while the list is empty.
C9_PickIndexInList ==
  \A k \in DOMAIN events :
    events[k].type = "Pick" => (0 <= events[k].n /\ events[k].n < availablePhotos)
\* The last photo of the list is picked.
C9_Witness ==
  /\ availablePhotos = MaxPhotos
  /\ \E k \in DOMAIN events : events[k] = Pick(availablePhotos - 1)

\* C10: a frame with a hand invokes SetScene exactly for a top gesture with
\* score > 0.4 and label Open_Palm (CHAOS) or Closed_Fist (FORMED),
\* whatever the phase and the OK state.
SceneFor(d) ==
  IF d.score > ScoreThreshold /\ d.label = "Open_Palm" THEN <<SetScene("CHAOS")>>
  ELSE IF d.score > ScoreThreshold /\ d.label = "Closed_Fist"
  THEN <<SetScene("FORMED")>>
  ELSE <<>>
C10_SceneByLabelAndScore == HandPresent(frame) => ScenesOf(events) = SceneFor(frame)
\* Open_Palm at 0.9 on the frame that picks.
C10_Witness ==
  /\ HandPresent(frame)
  /\ Emits(events, "Pick")
  /\ ScenesOf(events) = <<SetScene("CHAOS")>>

\* C12: on every frame with a hand the OK predicate is evaluated with the
\* thresholds of the scene phase and the permissive flag the application
\* has when the frame is processed: okFrameCount counts the frame exactly
\* when the hand satisfies the predicate under these.
C12_ThresholdsAreCurrent ==
  [][(who' # 0 /\ HandPresent(frame'))
     => (ctrl'[who'].okFrameCount > 0
           <=> OkSign(ResultOf(frame').landmarks[1], sceneState, permissiveOk))]_vars

\* C13: a frame with a hand invokes SetRotation exactly once, with
\* (0.5 - wristX) * 0.15 when that is beyond 0.01 in magnitude and with 0
\* otherwise; for a wrist inside the image the speed is 0 or of magnitude
\* in (0.01, 0.075].
RotationsOf(evs) == SelectSeq(evs, LAMBDA e : e.type = "SetRotation")
C13_RotationSpeed ==
  frame.hand = "Open" =>
    /\ Len(RotationsOf(events)) = 1
    /\ LET speed == RotationsOf(events)[1].n
           raw == (50 - frame.wx) * 15
       IN /\ Abs(raw) > 100 => speed = raw
          /\ Abs(raw) <= 100 => speed = 0
          /\ speed = 0 \/ (Abs(speed) > 100 /\ Abs(speed) <= 750)
\* The wrist on the right edge of the image: the largest speed to the left.
C13_Witness ==
  /\ frame.hand = "Open"
  /\ frame.wx = 100
  /\ RotationsOf(events) = <<SetRotation(-750)>>

\* A first hand whose landmark list does not have 21 points.
Malformed(d) ==
  /\ d.hand \notin {"-", "unready", "none", "error"}
  /\ ResultOf(d).landmarks[1].count # 21

\* C14: a frame whose first hand is malformed invokes neither Pick nor
\* Unpick and leaves okFrameCount, okActive, lastPickTime and the anchor as
\* they were.
C14_MalformedHandSkipped ==
  [][(who' # 0 /\ Malformed(frame'))
     => /\ ~Emits(events', "Pick")
        /\ ~Emits(events', "Unpick")
        /\ ctrl'[who'].okFrameCount = ctrl[who'].okFrameCount
        /\ ctrl'[who'].okActive = ctrl[who'].okActive
        /\ ctrl'[who'].lastPickTime = ctrl[who'].lastPickTime
        /\ ctrl'[who'].lastPickHandPos = ctrl[who'].lastPickHandPos]_vars

\* C15: an error raised while a frame is processed does not leave
\* predictWebcam: the frame invokes no callback and the loop goes on with
\* the next animation frame.
C15_FrameErrorsContained ==
  [][(who' # 0 /\ frame'.hand = "error")
     => /\ events' = <<>>
        /\ ctrl'[who'].stage = "running"]_vars

\* C18: once the cleanup of a run of the effect has run (every run but the
\* last), that run's predictWebcam processes no camera frame and invokes no
\* callback, also when the cleanup came while its setup() was awaiting.
C18_NothingAfterTeardown ==
  [][(who' # 0 /\ who' < Len(ctrl'))
     => (frame'.hand = "unready" /\ events' = <<>>)]_vars

\* C19: the cleanup of a run of the effect that had acquired a camera
\* stream stops the stream: when the cleanup has run, no stream is active.
C19_TeardownStopsStream ==
  [][(Len(ctrl') > Len(ctrl) /\ streams > 0) => streams' = 0]_vars

\* C20: on the third of three runs of predictWebcam in a row that find no
\* decoded frame (videoWidth = 0) the interpreter does what it does on a
\* frame without a hand: it invokes SetRotation(0) and nothing else, and
\* the rotation speed is 0 afterwards.
C20_UnreadyActsAsZeroHands ==
  idleTicks = 3 => (events = <<SetRotation(0)>> /\ rotationSpeed = 0)

\* C11: the tick of the render loop that follows a SetScene(FORMED) invoked
\* in CHAOS reads FORMED, and so does every tick while the phase stays
\* FORMED: every group lerps towards targetPos.
AllTowards(t, pos) == \A g \in Groups : t[g] = pos
C11_TicksFollowSetScene ==
  [][/\ (/\ sceneState = "CHAOS"
          /\ \E k \in DOMAIN events' : events'[k] = SetScene("FORMED")
          /\ lerpTarget' # NoTarget)
         => AllTowards(lerpTarget', "targetPos")
     /\ (/\ sceneState = "FORMED" /\ sceneState' = "FORMED"
          /\ lerpTarget' # NoTarget)
         => AllTowards(lerpTarget', "targetPos")]_vars

\* Gesture control is off: the page is not served from a secure origin, or
\* setup() has ended in one of its catch blocks.
GestureOff == ~secureOrigin \/ \E i \in DOMAIN ctrl : ctrl[i].stage = "failed"
\* C16: when recognizer initialization or camera access has failed (model,
\* camera, origin not https), the status is an ERROR, no callback of the
\* interpreter is invoked any more, and the ticks of the render loop follow
\* the phase the manual toggle sets.
C16_FailureLeavesManualControl ==
  GestureOff =>
    /\ aiStatus = "ERROR"
    /\ events = <<>>
    /\ lerpTarget # NoTarget => lerpTarget = Targets(sceneState)

\* C17: with chaosPos.x = 0 and targetPos.x = 10, every tick in FORMED
\* leaves currentPos.x not smaller than before, not beyond 10, and closer
\* to 10, for every delta and every rate of the groups.
C17_LerpApproachesTarget ==
  [][(particle'.ticks = particle.ticks + 1 /\ sceneState = "FORMED")
     => /\ particle'.x >= particle.x
        /\ particle'.x <= targetPos
        /\ Abs(targetPos - particle'.x) < Abs(targetPos - particle.x)]_vars

\* okFrameCount, okActive, lastPickTime and the anchor of a closure.
Interp(c) == <<c.okFrameCount, c.okActive, c.lastPickTime, c.lastPickHandPos>>

\* C21: after every frame, okActive of the interpreter holds exactly when
\* its anchor (lastPickHandPos) is set.
C21_AnchorIffActive ==
  \A i \in DOMAIN ctrl : ctrl[i].okActive <=> ctrl[i].lastPickHandPos.set
\* A frame has picked: okActive with the anchor at the wrist of that frame.
C21_Witness ==
  /\ who # 0
  /\ Emits(events, "Pick")
  /\ ctrl[who].okActive
  /\ ctrl[who].lastPickHandPos = Pos(Pt(frame.wx, 50))

\* C22: the interpreter state is one instance for the whole lifetime of the
\* application: a step that runs no frame (a press of a button, a timer,
\* the photo check) leaves okFrameCount, okActive, lastPickTime and the
\* anchor of the interpreter in charge as they were.
C22_OneInterpreter ==
  [][who' = 0 => Interp(ctrl'[Len(ctrl')]) = Interp(ctrl[Len(ctrl)])]_vars

\* C23: a frame without a hand leaves okFrameCount, okActive, lastPickTime
\* and the anchor as they were and invokes no Unpick: a pick that is open
\* stays open, and its overlay stays as it is.
C23_ZeroHandsKeepState ==
  [][(who' # 0 /\ ZeroHands(frame'))
     => /\ Interp(ctrl'[who']) = Interp(ctrl[who'])
        /\ ~Emits(events', "Unpick")
        /\ pickOpen' = pickOpen
        /\ zoomMounted' = zoomMounted
        /\ zoomPhotoIndex' = zoomPhotoIndex]_vars
\* The hand has left the image while the pick is open and the counter is
\* at OK_HOLD_FRAMES: the overlay is still shown.
C23_Witness ==
  /\ who # 0
  /\ ZeroHands(frame)
  /\ idleTicks = 0
  /\ ctrl[who].okActive
  /\ ctrl[who].okFrameCount = OK_HOLD_FRAMES
  /\ pickOpen
  /\ OverlayShown
  /\ rotationSpeed = 0

\* C24: a Pick is invoked only on a rising edge of the debounced OK
\* condition (okFrameCount >= OK_HOLD_FRAMES): on the frame that picks, the
\* counter was below OK_HOLD_FRAMES before the frame.  A sign held since
\* before does not pick again after a movement unpick or when the cooldown
\* is over.
C24_PickOnRisingEdge ==
  [][(who' # 0 /\ Emits(events', "Pick"))
     => ctrl[who'].okFrameCount < OK_HOLD_FRAMES]_vars

\* C25: no frame invokes both Pick and Unpick: on the frame that picks, the
\* release check (675) and the movement check (683), which both run after
\* the pick block, do not fire.
C25_NeverPickAndUnpick == ~(Emits(events, "Pick") /\ Emits(events, "Unpick"))
\* A frame that picks the last photo, more than the cooldown after the
\* mount: okActive stays set and the anchor is the wrist of this frame.
C25_Witness ==
  /\ who # 0
  /\ events = <<SetRotation(0), Pick(MaxPhotos - 1)>>
  /\ ctrl[who].okActive
  /\ ctrl[who].lastPickHandPos = Pos(Pt(frame.wx, 50))
  /\ ctrl[who].lastPickTime = now
  /\ now - StartTime > PICK_COOLDOWN

\* C30: while a Pick is open (no Unpick has followed it; the Close button
\* is never pressed), the overlay stays mounted with a photo index: the
\* timer of an earlier Unpick does not unmount or clear it.
C30_OverlayOutlivesOldTimer ==
  pickOpen => (zoomMounted /\ zoomPhotoIndex # NoIndex)

\* The step is one more tick of the useFrame callback of the object
\* followed, which belongs to group g.
TickOf(g) == particle.group = g /\ particle'.ticks = particle.ticks + 1

\* C26: the progress of the foliage stays within [0, 1] under every
\* sequence of ticks and phase changes: each tick leaves it between its old
\* value and the target of the phase (1 in FORMED, 0 in CHAOS), for every
\* delta >= 0.
C26_ProgressInRange ==
  [][TickOf("foliage")
     => /\ particle'.x >= 0 /\ particle'.x <= 10000
        /\ IF sceneState = "FORMED"
           THEN particle'.x >= particle.x
           ELSE particle'.x <= particle.x]_vars
\* Six ticks 0.7 s apart in FORMED: within a hundredth of 1, not beyond.
C26_Witness ==
  /\ particle.group = "foliage"
  /\ particle.delta = 700
  /\ particle.ticks = MaxTicks
  /\ particle.x > 9900 /\ particle.x < 10000

\* C27: after every tick the emissive intensity of a light is 0 when the
\* phase the tick read is CHAOS and within [3, 7] when it is FORMED, at
\* every elapsed time and for every speed and offset of the light.
C27_LightIntensity ==
  [][TickOf("lights")
     => IF sceneState = "FORMED"
        THEN particle'.emissiveIntensity >= 3000 /\ particle'.emissiveIntensity <= 7000
        ELSE particle'.emissiveIntensity = 0]_vars
\* A light close to its brightest on the last tick, less than half of its
\* way to targetPos.
C27_Witness ==
  /\ particle.group = "lights"
  /\ particle.ticks = MaxTicks
  /\ particle.emissiveIntensity > 6900
  /\ particle.x < targetPos \div 2

\* C28: the scale of the top star is 0 before the first tick, stays within
\* [0, 1] under every sequence of ticks and phase changes, and does not
\* grow on a tick in CHAOS.
C28_StarScale ==
  [][particle.group = "star"
     => /\ particle.ticks = 0 => particle.x = 0
        /\ TickOf("star")
             => /\ particle'.x >= 0 /\ particle'.x <= 1000
                /\ sceneState = "CHAOS" => particle'.x <= particle.x]_vars

====
